---- MODULE Spec2Model ----
(***************************************************************************)
(* OffiStation storefront script: the cart kept in localStorage, the       *)
(* voucher resolver, the totals calculator and the cart / checkout page    *)
(* handlers, as written in the storefront script (the JavaScript appended  *)
(* to src/GOOGLE_OAUTH_SETUP.md) and in src/script1.js.                     *)
(*                                                                         *)
(* Money is counted in whole pesos.  The prices of the modelled catalog    *)
(* are multiples of 10, so that the 10 percent voucher is exact.           *)
(***************************************************************************)
EXTENDS Integers, Sequences, FiniteSets, TLC

\* ------------------------------------------------------------ bounds
\* Largest quantity an add-to-cart click may reach and largest quantity typed
\* into a quantity input.
MaxQty == 2

\* ------------------------------------------------------------ constants
SHIPPING_FEE == 150

\* The largest count the header badge shows as a number
BadgeCap == 99

NULL == "null"

\* Product cards of the catalog page (data-id, data-name, data-price, image).
ProductIds == {"A", "B"}

Catalog ==
    [id \in ProductIds |->
        CASE id = "A" -> [name |-> "Ballpen", price |-> 100, image |-> "images/ball pen.png"]
          [] id = "B" -> [name |-> "Chair", price |-> 1000, image |-> "images/chair.png"]]

VOUCHERS ==
    [code \in {"OFFI2025", "BULK10"} |->
        IF code = "OFFI2025"
        THEN [code |-> "OFFI2025", type |-> "amount", amount |-> 100, percent |-> 0,
              minSpend |-> 500]
        ELSE [code |-> "BULK10", type |-> "percent", amount |-> 0, percent |-> 10,
              minSpend |-> 2000]]

\* ------------------------------------------------------------ helpers
Min(a, b) == IF a < b THEN a ELSE b
Max(a, b) == IF a > b THEN a ELSE b

\* s.reduce((sum, x) => sum + x, 0): a left fold from 0
RECURSIVE SumFrom(_, _, _)
SumFrom(s, i, sum) == IF i > Len(s) THEN sum ELSE SumFrom(s, i + 1, sum + s[i])

\* reduce that starts from the first element instead of folding it in
SumSeqSkipsFirst(s) == SumFrom(s, 2, 0)

SumSeq(s) == SumFrom(s, 1, 0)

\* Array.prototype.find, as the index of the first match (0: undefined)
FindIndex(s, id) ==
    IF \E i \in 1..Len(s) : s[i].id = id
    THEN CHOOSE i \in 1..Len(s) : s[i].id = id /\ \A j \in 1..(i - 1) : s[j].id # id
    ELSE 0

\* The texts a voucher code is modelled to be, each with its characters
CharsOf ==
    ("" :> <<>>)
    @@ (" " :> <<" ">>)
    @@ ("OFFI2025" :> <<"O", "F", "F", "I", "2", "0", "2", "5">>)
    @@ ("offi2025" :> <<"o", "f", "f", "i", "2", "0", "2", "5">>)
    @@ ("Offi2025" :> <<"O", "f", "f", "i", "2", "0", "2", "5">>)
    @@ (" offi2025" :> <<" ", "o", "f", "f", "i", "2", "0", "2", "5">>)
    @@ (" OFFI2025" :> <<" ", "O", "F", "F", "I", "2", "0", "2", "5">>)
    @@ (" BULK10 " :> <<" ", "B", "U", "L", "K", "1", "0", " ">>)
    @@ ("BULK10" :> <<"B", "U", "L", "K", "1", "0">>)
    @@ ("bulk10" :> <<"b", "u", "l", "k", "1", "0">>)
    @@ (" bulk10 " :> <<" ", "b", "u", "l", "k", "1", "0", " ">>)
    @@ ("bulk 10" :> <<"b", "u", "l", "k", " ", "1", "0">>)
    @@ ("BULK 10" :> <<"B", "U", "L", "K", " ", "1", "0">>)
    @@ ("save50" :> <<"s", "a", "v", "e", "5", "0">>)
    @@ ("SAVE50" :> <<"S", "A", "V", "E", "5", "0">>)
    @@ ("OFFI" :> <<"O", "F", "F", "I">>)
    @@ ("BULK" :> <<"B", "U", "L", "K">>)
    @@ ("offi" :> <<"o", "f", "f", "i">>)

Texts == DOMAIN CharsOf

\* The text that has the characters cs ("?": a text that is not modelled)
Str(cs) ==
    IF \E t \in Texts : CharsOf[t] = cs
    THEN CHOOSE t \in Texts : CharsOf[t] = cs
    ELSE "?"

\* String.prototype.trim: the white space at both ends removed
WhiteSpace == {" "}

RECURSIVE TrimStart(_)
TrimStart(cs) ==
    IF cs # <<>> /\ Head(cs) \in WhiteSpace THEN TrimStart(Tail(cs)) ELSE cs

RECURSIVE TrimEnd(_)
TrimEnd(cs) ==
    IF cs # <<>> /\ cs[Len(cs)] \in WhiteSpace
    THEN TrimEnd(SubSeq(cs, 1, Len(cs) - 1)) ELSE cs

Trim(cs) == TrimEnd(TrimStart(cs))

\* String.prototype.toUpperCase, character by character
UpperOf ==
    ("a" :> "A") @@ ("b" :> "B") @@ ("c" :> "C") @@ ("d" :> "D") @@ ("e" :> "E") @@ ("f" :> "F") @@ ("i" :> "I") @@ ("k" :> "K") @@ ("l" :> "L") @@ ("n" :> "N") @@ ("o" :> "O") @@ ("s" :> "S") @@ ("u" :> "U") @@ ("v" :> "V") @@ ("x" :> "X")

ToUpperCase(cs) == [i \in 1..Len(cs) |-> IF cs[i] \in DOMAIN UpperOf THEN UpperOf[cs[i]] ELSE cs[i]]

\* String(code).trim().toUpperCase(), of every modelled text
TrimUpperOf == [t \in Texts |-> Str(ToUpperCase(Trim(CharsOf[t])))]

TrimUpper(s) == TrimUpperOf[s]

\* encodeURI(decodeURI(url)), on the image URLs of the catalog
normalizeImageUrl(url) ==
    CASE url = "images/ball pen.png" -> "images/ball%20pen.png"
      [] OTHER -> url

\* n.toFixed(2) with thousands separators, for a whole number of pesos: the
\* sign, the groups of three digits the commas separate, and the cents.
RECURSIVE Groups(_)
Groups(n) == IF n < 1000 THEN <<n>> ELSE Append(Groups(n \div 1000), n % 1000)

formatPrice(price) ==
    [neg |-> price < 0,
     groups |-> Groups(IF price < 0 THEN 0 - price ELSE price),
     cents |-> 0]

\* A number assigned to textContent: its decimal text (sign and digits).
NumText(n) == [neg |-> n < 0, digits |-> IF n < 0 THEN 0 - n ELSE n]

\* ------------------------------------------------------------ localStorage values
\* The text stored under 'cartItems', by what JSON.parse makes of it:
\*   absent  no entry (getItem gives null)
\*   array   the JSON text of an array of cart items (val)
\*   falsy   a JSON text of a falsy value: null, false, 0, ""
\*   syntax  a text JSON.parse rejects with a SyntaxError
\*   object, number, string, true   a JSON text of a truthy value that is no array
\*   nullitem  the JSON text [null]
Absent == [kind |-> "absent", val |-> <<>>]
Stored(cart) == [kind |-> "array", val |-> cart]
Malformed(k) == [kind |-> k, val |-> <<>>]
MalformedKinds == {"falsy", "syntax", "object", "number", "string", "true", "nullitem"}

\* JSON.parse(localStorage.getItem('cartItems'))
JSONparse(raw) ==
    CASE raw.kind = "absent" -> [threw |-> FALSE, type |-> "null", items |-> <<>>]
      [] raw.kind = "syntax" -> [threw |-> TRUE, type |-> "none", items |-> <<>>]
      [] raw.kind = "array" -> [threw |-> FALSE, type |-> "array", items |-> raw.val]
      [] OTHER -> [threw |-> FALSE, type |-> raw.kind, items |-> <<>>]

\* getCartItems(): JSON.parse(...) || []
getCartItems(raw) ==
    LET p == JSONparse(raw) IN
    IF p.threw THEN p
    ELSE IF p.type \in {"null", "falsy"}
         THEN [threw |-> FALSE, type |-> "array", items |-> <<>>]
         ELSE p

\* cart.reduce(...), cart.forEach(...), cart.find(...) on what getCartItems
\* returned: a TypeError unless it is an array of items.
UseThrows(raw) == getCartItems(raw).threw \/ getCartItems(raw).type # "array"

\* ------------------------------------------------------------ vouchers
NoVoucher == [code |-> "", type |-> "none", amount |-> 0, percent |-> 0, minSpend |-> 0]

\* getActiveVoucherCode(): localStorage.getItem('os_active_voucher') || null
getActiveVoucherCode(stored) == IF stored = "" THEN NULL ELSE stored

\* the lookup after uppercasing only, the white space kept
getVoucherByCodeNoTrim(code) ==
    IF code = NULL \/ code = "" THEN NoVoucher
    ELSE LET up == Str(ToUpperCase(CharsOf[code])) IN
         IF up \in DOMAIN VOUCHERS THEN VOUCHERS[up] ELSE NoVoucher

getVoucherByCode(code) ==
    IF code = NULL \/ code = "" THEN NoVoucher
    ELSE LET up == TrimUpper(code) IN
         IF up \in DOMAIN VOUCHERS THEN VOUCHERS[up] ELSE NoVoucher

Subtotal(cart) == SumSeq([i \in 1..Len(cart) |-> cart[i].price * cart[i].quantity])
ItemCount(cart) == SumSeq([i \in 1..Len(cart) |-> cart[i].quantity])

\* the minimum spend compared with <= instead of <
DiscountOfStrict(voucher, subtotal) ==
    IF voucher.type = "none" THEN 0
    ELSE IF subtotal <= 0 THEN 0
    ELSE IF voucher.minSpend # 0 /\ subtotal <= voucher.minSpend THEN 0
    ELSE IF voucher.type = "amount" THEN Min(voucher.amount, subtotal)
    ELSE IF voucher.type = "percent" THEN (subtotal * voucher.percent) \div 100
    ELSE 0

\* The body of calculateVoucherDiscount, from the voucher getVoucherByCode
\* found and the subtotal its reduce computed
DiscountOf(voucher, subtotal) ==
    IF voucher.type = "none" THEN 0
    ELSE IF subtotal <= 0 THEN 0
    ELSE IF voucher.minSpend # 0 /\ subtotal < voucher.minSpend THEN 0
    ELSE IF voucher.type = "amount" THEN Min(voucher.amount, subtotal)
    ELSE IF voucher.type = "percent" THEN (subtotal * voucher.percent) \div 100
    ELSE 0

calculateVoucherDiscountStrict(cart, code) ==
    DiscountOfStrict(getVoucherByCode(code), Subtotal(cart))

calculateVoucherDiscount(cart, code) ==
    DiscountOf(getVoucherByCode(code), Subtotal(cart))

\* the total without its floor at zero
TotalsOfNoFloor(subtotal, itemCount, discount, appliedCode) ==
    LET shipping == IF subtotal > 0 THEN SHIPPING_FEE ELSE 0
        total == subtotal - discount + shipping
    IN  [subtotal |-> subtotal, discount |-> discount, shipping |-> shipping,
         total |-> total, itemCount |-> itemCount, appliedVoucher |-> appliedCode]

\* shipping charged on an empty cart too
TotalsOfShipsEmpty(subtotal, itemCount, discount, appliedCode) ==
    LET shipping == IF subtotal >= 0 THEN SHIPPING_FEE ELSE 0
        total == Max(0, subtotal - discount) + shipping
    IN  [subtotal |-> subtotal, discount |-> discount, shipping |-> shipping,
         total |-> total, itemCount |-> itemCount, appliedVoucher |-> appliedCode]

\* totals that report no applied voucher when the voucher gives no discount
TotalsOfDropsIneligible(subtotal, itemCount, discount, appliedCode) ==
    LET shipping == IF subtotal > 0 THEN SHIPPING_FEE ELSE 0
        total == Max(0, subtotal - discount) + shipping
    IN  [subtotal |-> subtotal, discount |-> discount, shipping |-> shipping,
         total |-> total, itemCount |-> itemCount,
         appliedVoucher |-> IF discount > 0 THEN appliedCode ELSE NULL]

\* What calculateCartTotals returns, from the subtotal, the item count and the
\* discount it computed and the code getActiveVoucherCode() gave
TotalsOf(subtotal, itemCount, discount, appliedCode) ==
    LET shipping == IF subtotal > 0 THEN SHIPPING_FEE ELSE 0
        total == Max(0, subtotal - discount) + shipping
    IN  [subtotal |-> subtotal, discount |-> discount, shipping |-> shipping,
         total |-> total, itemCount |-> itemCount, appliedVoucher |-> appliedCode]

\* calculateCartTotals(cart), appliedCode being what getActiveVoucherCode() reads
calculateCartTotals(cart, appliedCode) ==
    TotalsOf(Subtotal(cart), ItemCount(cart),
             IF appliedCode # NULL THEN calculateVoucherDiscount(cart, appliedCode) ELSE 0,
             appliedCode)

\* calculateCartTotals of src/script1.js (no voucher, no shipping field)
calculateCartTotals1(cart) ==
    LET subtotal == Subtotal(cart)
        total == IF subtotal > 0 THEN subtotal + SHIPPING_FEE ELSE 0
        itemCount == ItemCount(cart)
    IN  [subtotal |-> subtotal, total |-> total, itemCount |-> itemCount]

\* ------------------------------------------------------------ cart arrays
\* addItemToCart that never looks for an existing entry
addItemToCartAlwaysPush(cart, newItem) ==
    Append(cart, [newItem EXCEPT !.image = normalizeImageUrl(@)])

\* addItemToCart that looks for the id in the first entry only
addItemToCartFirstOnly(cart, newItem) ==
    IF cart # <<>> /\ cart[1].id = newItem.id
    THEN [cart EXCEPT ![1].quantity = @ + newItem.quantity]
    ELSE Append(cart, [newItem EXCEPT !.image = normalizeImageUrl(@)])

\* addItemToCart that overwrites an existing entry with the new item's
\* name, price and image
addItemToCartReprices(cart, newItem) ==
    LET k == FindIndex(cart, newItem.id) IN
    IF k # 0
    THEN [cart EXCEPT ![k] = [newItem EXCEPT !.quantity = @ + cart[k].quantity]]
    ELSE Append(cart, [newItem EXCEPT !.image = normalizeImageUrl(@)])

\* The array addItemToCart hands to saveCart
addItemToCart(cart, newItem) ==
    LET k == FindIndex(cart, newItem.id) IN
    IF k # 0
    THEN [cart EXCEPT ![k].quantity = @ + newItem.quantity]
    ELSE Append(cart, [newItem EXCEPT !.image = normalizeImageUrl(@)])

\* an update that writes the quantity into every entry
updateQuantityOfAll(cart, id, quantity) ==
    [i \in 1..Len(cart) |-> [cart[i] EXCEPT !.quantity = quantity]]

\* The array updateQuantity hands to saveCart
updateQuantity(cart, id, quantity) ==
    LET k == FindIndex(cart, id) IN
    IF k # 0 THEN [cart EXCEPT ![k].quantity = quantity] ELSE cart

\* a filter that keeps the entries with the id instead of the others
removeItemKeepsMatch(cart, id) ==
    LET Same(i) == i.id = id IN SelectSeq(cart, Same)

\* The array removeItem hands to saveCart
removeItem(cart, id) ==
    LET Other(i) == i.id # id IN SelectSeq(cart, Other)

\* The array migrateStoredImages leaves stored
migrateStoredImages(cart) ==
    [i \in 1..Len(cart) |-> [cart[i] EXCEPT !.image = normalizeImageUrl(@)]]

\* The item an add-to-cart click builds from a product card
CardItem(id) ==
    [id |-> id, name |-> Catalog[id].name, price |-> Catalog[id].price,
     image |-> Catalog[id].image, quantity |-> 1]

\* a badge that shows "99+" from 99 on
BadgeTextFrom99(cart) ==
    LET totalItems == ItemCount(cart) IN
    IF totalItems >= BadgeCap THEN [plus |-> TRUE, num |-> NumText(BadgeCap)]
    ELSE [plus |-> FALSE, num |-> NumText(totalItems)]

\* updateCartCount(): the text of the header badge
BadgeText(cart) ==
    LET totalItems == ItemCount(cart) IN
    IF totalItems > BadgeCap THEN [plus |-> TRUE, num |-> NumText(BadgeCap)]
    ELSE [plus |-> FALSE, num |-> NumText(totalItems)]

\* ------------------------------------------------------------ the DOM
NoText == <<>>
Text(x) == <<x>>

\* The value of a number input: what the user typed (a number, or text that is
\* no number), or the quantity a render wrote into it.
Typed(isNum, v) == [num |-> isNum, val |-> v]

\* parseInt(value, 10) || 1
ParseIntOr1(t) == IF ~t.num \/ t.val = 0 THEN 1 ELSE t.val

\* The cart page before renderCart has run (and every other page)
BlankCartDom ==
    [emptyMsg |-> "initial", summaryBox |-> "initial", headerRow |-> "initial",
     rows |-> <<>>, itemCount |-> NoText, subtotal |-> NoText, total |-> NoText,
     shipping |-> NoText, discount |-> NoText, discountRow |-> "initial",
     voucherInfo |-> "initial", voucherCode |-> NoText, removeBtn |-> "initial",
     input |-> "", controls |-> FALSE, listenerCart |-> <<>>, onclickCart |-> <<>>,
     handlersAttached |-> FALSE]

\* One .cart-item row
CartRow(item) ==
    [id |-> item.id, name |-> item.name, image |-> item.image,
     unit |-> formatPrice(item.price), value |-> item.quantity,
     total |-> formatPrice(item.price * item.quantity)]

\* The voucher display of renderCart (the code, the discount row, the Remove
\* button), on the DOM d1 that carries the rows and the totals; v is what
\* getVoucherByCode gives for the applied code
renderCartVoucher(d1, totals, v) ==
    IF totals.appliedVoucher # NULL
    THEN IF v.type # "none"
         THEN [d1 EXCEPT !.voucherInfo = "block", !.voucherCode = Text(v.code),
                         !.discount = Text([minus |-> TRUE,
                                           price |-> formatPrice(totals.discount)]),
                         !.discountRow = "block", !.removeBtn = "inline-block",
                         !.input = v.code]
         ELSE d1
    ELSE \* #cart-discount-value keeps its text inside the hidden row; the
         \* text of a hidden element is not tracked
         [d1 EXCEPT !.voucherInfo = "none", !.discountRow = "none",
                    !.discount = NoText, !.voucherCode = NoText,
                    !.removeBtn = "none", !.input = ""]

\* a render that adds the rows to those already in the list
renderCartTotalsAppendsRows(dom, cart, totals) ==
    renderCartVoucher(
        [dom EXCEPT
           !.rows = @ \o [i \in 1..Len(cart) |-> CartRow(cart[i])],
           !.emptyMsg = "none", !.summaryBox = "block", !.headerRow = "grid",
           !.itemCount = Text(NumText(totals.itemCount)),
           !.subtotal = Text(formatPrice(totals.subtotal)),
           !.total = Text(formatPrice(totals.total)),
           !.controls = TRUE,
           !.removeBtn = IF ~dom.controls THEN "none" ELSE @,
           !.voucherInfo = IF ~dom.controls THEN "none" ELSE @,
           !.listenerCart = IF ~dom.controls THEN Text(cart) ELSE @,
           !.onclickCart = Text(cart),
           !.shipping = Text(formatPrice(totals.shipping)),
           !.handlersAttached = TRUE],
        totals, getVoucherByCode(totals.appliedVoucher))

\* The populated branch of renderCart: the rows, the totals calculateCartTotals
\* returned, the voucher controls (injected once), then the voucher display
renderCartTotals(dom, cart, totals) ==
    renderCartVoucher(
        [dom EXCEPT
           !.rows = [i \in 1..Len(cart) |-> CartRow(cart[i])],
           !.emptyMsg = "none", !.summaryBox = "block", !.headerRow = "grid",
           !.itemCount = Text(NumText(totals.itemCount)),
           !.subtotal = Text(formatPrice(totals.subtotal)),
           !.total = Text(formatPrice(totals.total)),
           !.controls = TRUE,
           !.removeBtn = IF ~dom.controls THEN "none" ELSE @,
           !.voucherInfo = IF ~dom.controls THEN "none" ELSE @,
           !.listenerCart = IF ~dom.controls THEN Text(cart) ELSE @,
           !.onclickCart = Text(cart),
           !.shipping = Text(formatPrice(totals.shipping)),
           !.handlersAttached = TRUE],
        totals, getVoucherByCode(totals.appliedVoucher))

\* a renderCart without the branch for the empty cart
renderCartAlwaysPopulated(dom, cart, voucher) ==
    renderCartTotals(dom, cart,
                     calculateCartTotals(cart, getActiveVoucherCode(voucher)))

\* renderCart(): the cart page's DOM after it, from the DOM before it, the
\* array getCartItems() returns and the stored voucher code
renderCart(dom, cart, voucher) ==
    IF Len(cart) = 0
    THEN [dom EXCEPT !.rows = <<>>, !.emptyMsg = "block", !.summaryBox = "none",
                     !.headerRow = "none"]
    ELSE renderCartTotals(dom, cart,
                          calculateCartTotals(cart, getActiveVoucherCode(voucher)))

\* The checkout page before renderOrderSummary has run (and every other page)
BlankCheckoutDom ==
    [rows |-> <<>>, itemCount |-> NoText, subtotal |-> NoText, discount |-> NoText,
     discountRow |-> "initial", voucherRow |-> "initial", voucherCode |-> NoText,
     shipping |-> NoText, total |-> NoText,
     formHidden |-> FALSE, success |-> FALSE, orderNumber |-> NoText,
     authPrompt |-> FALSE]

\* One .checkout-item row
CheckoutRow(item) ==
    [id |-> item.id, name |-> item.name,
     unit |-> <<"Unit: ", formatPrice(item.price)>>,
     total |-> formatPrice(item.price * item.quantity)]

\* The populated branch of renderOrderSummary: the rows and the figures of the
\* totals calculateCartTotals returned
renderSummaryTotals(dom, cart, totals) ==
    [dom EXCEPT
       !.rows = [i \in 1..Len(cart) |-> CheckoutRow(cart[i])],
       !.itemCount = Text(NumText(totals.itemCount)),
       !.subtotal = Text(formatPrice(totals.subtotal)),
       !.discount = Text(formatPrice(totals.discount)),
       !.discountRow = IF totals.discount > 0 THEN "flex" ELSE "none",
       !.voucherRow = IF totals.appliedVoucher # NULL THEN "flex" ELSE "none",
       !.voucherCode = IF totals.appliedVoucher # NULL
                       THEN Text(totals.appliedVoucher) ELSE Text("-"),
       !.shipping = Text(formatPrice(totals.shipping)),
       !.total = Text(formatPrice(totals.total))]

\* renderOrderSummary(): the checkout page's DOM after it (the redirect of the
\* empty branch is RedirectsToCatalog; alerts and the form's error
\* indicators are not tracked)
renderOrderSummary(dom, cart, voucher) ==
    IF Len(cart) = 0
    THEN dom
    ELSE renderSummaryTotals(dom, cart,
                             calculateCartTotals(cart, getActiveVoucherCode(voucher)))

\* a render that stays on the checkout page when the cart is empty
RedirectsToCatalogNever(cart) == FALSE

\* renderOrderSummary(): cart.length === 0, the branch that assigns catalog.html
RedirectsToCatalog(cart) == Len(cart) = 0

\* ------------------------------------------------------------ navigation
\* nav: the navigation that is under way (window.location.href was assigned)
\* or scheduled by setTimeout.
NoNav == [to |-> "none", timer |-> FALSE]
\* window.location.href = target
Assign(target) == [to |-> target, timer |-> FALSE]
\* setTimeout(() => { window.location.href = target }, 700): an earlier timer
\* fires first and unloads the page; a navigation under way is not undone.
Schedule(n, target) == IF n.to = "none" THEN [to |-> target, timer |-> TRUE] ELSE n

ScriptPages == {"index", "catalog", "cart", "checkout"}
Pages == ScriptPages \cup {"login"}

\* ------------------------------------------------------------ state
VARIABLES
    cartItems,              \* localStorage 'cartItems'
    os_active_voucher,      \* localStorage 'os_active_voucher' (NULL: absent)
    os_current_user,        \* localStorage 'os_current_user' (NULL: absent)
    os_pending_add,         \* localStorage 'os_pending_add' (<<>>: absent, <<item>>)
    page,                   \* the document that is loaded
    nav,                    \* the navigation under way or scheduled
    threw,                  \* the last handler ended with an uncaught exception
    badge,                  \* textContent of #cart-count (NoText: never set)
    logoutLink,             \* renderAuthLinks put a logout link into the nav
    cartDom,                \* the cart page's elements
    checkoutDom,            \* the checkout page's elements
    toasts,                 \* the messages the last handler passed to showToast
    last                    \* the handler that ran last

storage == <<cartItems, os_active_voucher, os_current_user, os_pending_add>>
vars == <<cartItems, os_active_voucher, os_current_user, os_pending_add, page, nav, threw, badge, logoutLink, cartDom,
          checkoutDom, toasts, last>>

Items == getCartItems(cartItems).items
\* a login check that always passes
isLoggedInAlways == TRUE

\* isLoggedIn(): !!localStorage.getItem('os_current_user')
isLoggedIn == os_current_user # NULL


\* What a user types into a quantity input
QtyInputs == {Typed(TRUE, n) : n \in -1..MaxQty} \cup {Typed(FALSE, 0)}
\* Quantities typed by a customer who buys in bulk
BulkInputs == {Typed(TRUE, 1), Typed(TRUE, BadgeCap), Typed(FALSE, 0)}
\* What a user types into the voucher input
CodeInputs == {"", " ", "offi2025", "BULK10", "save50"}
\* Date.now() at a checkout
Timestamps == {1234567}

\* The state of a browser that never visited the shop, on the home page
Init ==
    /\ cartItems = Absent
    /\ os_active_voucher = NULL
    /\ os_current_user = NULL
    /\ os_pending_add = <<>>
    /\ page = "index"
    /\ nav = NoNav
    /\ threw = FALSE
    /\ badge = Text(BadgeText(<<>>))
    /\ logoutLink = FALSE
    /\ cartDom = BlankCartDom
    /\ checkoutDom = BlankCheckoutDom
    /\ toasts = <<>>
    /\ last = "load"

\* ------------------------------------------------------------ page load
\* a replay that does not ask for the login flag
ReplaysPendingLoggedOut == os_pending_add # <<>>

\* if (pendingRaw && isLoggedIn()): the load replays the pending add
ReplaysPending == os_pending_add # <<>> /\ isLoggedIn

\* The DOMContentLoaded listener on page p (login.html does not load the script).
Load(p) ==
    /\ last' = "load"
    /\ page' = p
    /\ toasts' = IF p # "login" /\ ~UseThrows(cartItems) /\ ReplaysPending
                 THEN <<"Added item to cart after sign-in">> ELSE <<>>
    /\ UNCHANGED <<os_active_voucher, os_current_user>>
    /\ IF p = "login"
       THEN /\ threw' = FALSE
            /\ nav' = NoNav
            /\ badge' = NoText
            /\ logoutLink' = FALSE
            /\ cartDom' = BlankCartDom
            /\ checkoutDom' = BlankCheckoutDom
            /\ UNCHANGED <<cartItems, os_pending_add>>
       ELSE IF UseThrows(cartItems)
       THEN \* updateCartCount(), the listener's first statement, throws
            /\ threw' = TRUE
            /\ nav' = NoNav
            /\ badge' = NoText
            /\ logoutLink' = FALSE
            /\ cartDom' = BlankCartDom
            /\ checkoutDom' = BlankCheckoutDom
            /\ UNCHANGED <<cartItems, os_pending_add>>
       ELSE
       LET cart0 == Items
           cart1 == migrateStoredImages(cart0)
           store1 == IF cart1 # cart0 THEN Stored(cart1) ELSE cartItems
           cartDom1 == IF p = "cart"
                       THEN renderCart(BlankCartDom, cart1, os_active_voucher)
                       ELSE BlankCartDom
           replay == ReplaysPending
           cart2 == IF replay THEN addItemToCart(cart1, os_pending_add[1]) ELSE cart1
       IN  /\ threw' = FALSE
           /\ nav' = IF p = "checkout" /\ RedirectsToCatalog(cart1)
                     THEN Assign("catalog") ELSE NoNav
           /\ checkoutDom' = IF p = "checkout"
                             THEN renderOrderSummary(BlankCheckoutDom, cart1,
                                                     os_active_voucher)
                             ELSE BlankCheckoutDom
           /\ logoutLink' = isLoggedIn
           /\ cartItems' = IF replay THEN Stored(cart2) ELSE store1
           /\ os_pending_add' = IF replay THEN <<>> ELSE os_pending_add
           /\ badge' = Text(BadgeText(cart2))
           /\ cartDom' = IF replay /\ p = "cart"
                         THEN renderCart(cartDom1, cart2, os_active_voucher)
                         ELSE cartDom1

\* A handler can run: the script is loaded and its listeners were attached.
\* A page stays in use after window.location.href was assigned or a timer was
\* set, until the new document replaces it (Redirect).
Interactive == page \in ScriptPages /\ ~threw

\* The user follows a link or types an address
Visit(p) ==
    /\ nav.to = "none" \/ nav.timer
    /\ Load(p)

\* The navigation under way, or the scheduled one, happens
Redirect ==
    /\ nav.to # "none"
    /\ Load(nav.to)

\* The login page's own script sets the login flag
Login ==
    /\ last' = "login"
    /\ toasts' = <<>>
    /\ page = "login"
    /\ os_current_user' = "user"
    /\ UNCHANGED <<cartItems, os_active_voucher, os_pending_add, page, nav, threw, badge, logoutLink,
                   cartDom, checkoutDom>>

\* ------------------------------------------------------------ catalog page
\* an add-to-cart click that does not consult isLoggedIn()
AddToCartClickNoLoginCheck(id) ==
    /\ last' = "add"
    /\ Interactive
    /\ page = "catalog"
    /\ \A i \in 1..Len(Items) : Items[i].id = id => Items[i].quantity < MaxQty
    /\ cartItems' = Stored(addItemToCart(Items, CardItem(id)))
    /\ badge' = Text(BadgeText(addItemToCart(Items, CardItem(id))))
    /\ toasts' = <<"Added to cart!">>
    /\ UNCHANGED <<os_pending_add, nav>>
    /\ UNCHANGED <<os_active_voucher, os_current_user, page, threw, logoutLink,
                   cartDom, checkoutDom>>

\* Click on the add-to-cart button of product card id
AddToCartClick(id) ==
    /\ last' = "add"
    /\ Interactive
    /\ page = "catalog"
    /\ \A i \in 1..Len(Items) : Items[i].id = id => Items[i].quantity < MaxQty
    /\ IF ~isLoggedIn
       THEN \* requireLogin also stores the address to return to under
            \* 'os_post_login_redirect', a key only login.html reads
            /\ os_pending_add' = <<CardItem(id)>>
            /\ toasts' = <<"Please sign in to continue">>
            /\ nav' = Schedule(nav, "login")
            /\ UNCHANGED <<cartItems, badge>>
       ELSE /\ cartItems' = Stored(addItemToCart(Items, CardItem(id)))
            /\ badge' = Text(BadgeText(addItemToCart(Items, CardItem(id))))
            /\ toasts' = <<"Added to cart!">>
            /\ UNCHANGED <<os_pending_add, nav>>
    /\ UNCHANGED <<os_active_voucher, os_current_user, page, threw, logoutLink,
                   cartDom, checkoutDom>>

\* a logout that removes the login flag and the voucher but keeps the cart
LogoutKeepsCart ==
    /\ last' = "logout"
    /\ toasts' = <<"Logged out - cart cleared">>
    /\ Interactive
    /\ logoutLink
    /\ os_current_user' = NULL
    /\ os_active_voucher' = NULL
    /\ nav' = Schedule(nav, "index")
    /\ UNCHANGED <<cartItems, badge, os_pending_add, page, threw, logoutLink,
                   cartDom, checkoutDom>>

\* doLogout(), from the logout link
Logout ==
    /\ last' = "logout"
    /\ toasts' = <<"Logged out - cart cleared">>
    /\ Interactive
    /\ logoutLink
    /\ os_current_user' = NULL
    /\ cartItems' = Stored(<<>>)
    /\ os_active_voucher' = NULL
    /\ badge' = Text(BadgeText(<<>>))
    /\ nav' = Schedule(nav, "index")
    /\ UNCHANGED <<os_pending_add, page, threw, logoutLink,
                   cartDom, checkoutDom>>

\* ------------------------------------------------------------ cart page
HasRow(rows, id) == \E i \in 1..Len(rows) : rows[i].id = id

\* The controls of the cart list can be used
CartListUsable == Interactive /\ page = "cart" /\ cartDom.handlersAttached

\* The quantity the cart page's change handler hands to updateQuantity
CartPageQty(typed) == ParseIntOr1(typed)

\* 'change' on the quantity input of row id, the user having typed `typed`
QuantityChange(id, typed) ==
    /\ last' = "qty"
    /\ toasts' = <<>>
    /\ CartListUsable
    /\ HasRow(cartDom.rows, id)
    /\ LET cart == updateQuantity(Items, id, CartPageQty(typed)) IN
       /\ cartItems' = Stored(cart)
       /\ badge' = Text(BadgeText(cart))
       /\ cartDom' = renderCart(cartDom, cart, os_active_voucher)
    /\ UNCHANGED <<os_active_voucher, os_current_user, os_pending_add, page, nav, threw, logoutLink, checkoutDom>>

\* Click on the remove button of row id
RemoveClick(id) ==
    /\ last' = "remove"
    /\ toasts' = <<>>
    /\ CartListUsable
    /\ HasRow(cartDom.rows, id)
    /\ LET cart == removeItem(Items, id) IN
       /\ cartItems' = Stored(cart)
       /\ badge' = Text(BadgeText(cart))
       /\ cartDom' = renderCart(cartDom, cart, os_active_voucher)
    /\ UNCHANGED <<os_active_voucher, os_current_user, os_pending_add, page, nav, threw, logoutLink, checkoutDom>>

\* an Apply listener that stores every known code, eligible or not
ApplyListenerNoCheck(input, closure, stored, voucher, dom) ==
    LET code == TrimUpper(input) IN
    IF code = ""
    THEN [voucher |-> voucher, dom |-> dom, toast |-> "Enter a voucher code"]
    ELSE IF getVoucherByCode(code).type = "none"
    THEN [voucher |-> voucher, dom |-> dom, toast |-> "Invalid voucher code"]
    ELSE [voucher |-> code, dom |-> renderCart(dom, stored, code),
          toast |-> "Voucher " \o code \o " applied"]

\* an Apply listener that drops the active code when the typed one is unknown
ApplyListenerClearsOnUnknown(input, closure, stored, voucher, dom) ==
    LET code == TrimUpper(input) IN
    IF code = ""
    THEN [voucher |-> voucher, dom |-> dom, toast |-> "Enter a voucher code"]
    ELSE IF getVoucherByCode(code).type = "none"
    THEN [voucher |-> NULL, dom |-> dom, toast |-> "Invalid voucher code"]
    ELSE IF calculateVoucherDiscount(closure, code) <= 0
    THEN [voucher |-> voucher, dom |-> dom,
          toast |-> "Voucher does not meet requirements"]
    ELSE [voucher |-> code, dom |-> renderCart(dom, stored, code),
          toast |-> "Voucher " \o code \o " applied"]

\* One click listener of the Apply button: from the voucher input's value, the
\* cart its closure holds, the stored cart and code and the DOM, the stored
\* code and the DOM after it
ApplyListener(input, closure, stored, voucher, dom) ==
    LET code == TrimUpper(input) IN
    IF code = ""
    THEN [voucher |-> voucher, dom |-> dom, toast |-> "Enter a voucher code"]
    ELSE IF getVoucherByCode(code).type = "none"
    THEN [voucher |-> voucher, dom |-> dom, toast |-> "Invalid voucher code"]
    ELSE IF calculateVoucherDiscount(closure, code) <= 0
    THEN [voucher |-> voucher, dom |-> dom,
          toast |-> "Voucher does not meet requirements"]
    ELSE [voucher |-> code, dom |-> renderCart(dom, stored, code),
          toast |-> "Voucher " \o code \o " applied"]

\* Click on Apply, the user having typed `typed` into the voucher input: the
\* listener added when the controls were injected, then the onclick handler
ApplyVoucher(typed) ==
    /\ last' = "apply"
    /\ Interactive
    /\ page = "cart"
    /\ cartDom.controls
    /\ cartDom.summaryBox = "block"
    /\ LET dom0 == [cartDom EXCEPT !.input = typed]
           r1 == ApplyListener(dom0.input, dom0.listenerCart[1], Items,
                               os_active_voucher, dom0)
           r2 == ApplyListener(r1.dom.input, r1.dom.onclickCart[1], Items,
                               r1.voucher, r1.dom)
       IN  /\ os_active_voucher' = r2.voucher
           /\ toasts' = <<r1.toast, r2.toast>>
           \* cartDom.input is the value the script last wrote: the text the
           \* user typed is the click's input, typed anew before every click
           /\ cartDom' = IF r2.dom = dom0 THEN cartDom ELSE r2.dom
    /\ UNCHANGED <<cartItems, os_current_user, os_pending_add, page, nav, threw, badge, logoutLink,
                   checkoutDom>>

\* Click on the voucher's Remove button: clearActiveVoucher(); renderCart(),
\* by both of its listeners
RemoveVoucher ==
    /\ last' = "unapply"
    /\ toasts' = <<"Voucher removed", "Voucher removed">>
    /\ Interactive
    /\ page = "cart"
    /\ cartDom.controls
    /\ cartDom.summaryBox = "block"
    /\ cartDom.removeBtn = "inline-block"
    /\ os_active_voucher' = NULL
    /\ cartDom' = renderCart(renderCart(cartDom, Items, NULL), Items, NULL)
    /\ UNCHANGED <<cartItems, os_current_user, os_pending_add, page, nav, threw, badge, logoutLink,
                   checkoutDom>>

\* ------------------------------------------------------------ checkout page
\* The quantity the checkout page's change handler hands to updateQuantity
CheckoutPageQty(typed) ==
    LET qty == ParseIntOr1(typed) IN IF qty < 1 THEN 1 ELSE qty

\* 'change' on the quantity input of checkout row id
CheckoutQuantityChange(id, typed) ==
    /\ last' = "coqty"
    /\ toasts' = <<>>
    /\ Interactive
    /\ page = "checkout"
    /\ HasRow(checkoutDom.rows, id)
    /\ LET qty == CheckoutPageQty(typed)
           cart == updateQuantity(Items, id, qty)
           k == FindIndex(cart, id)
           r == CHOOSE i \in 1..Len(checkoutDom.rows) : checkoutDom.rows[i].id = id
           totals == calculateCartTotals(cart, getActiveVoucherCode(os_active_voucher))
       IN  /\ cartItems' = Stored(cart)
           /\ badge' = Text(BadgeText(cart))
           /\ checkoutDom' =
                [checkoutDom EXCEPT
                   \* row.querySelector('div:last-child') is the first div in
                   \* document order that is a last child: .checkout-item-unit,
                   \* the last child of .checkout-item-info
                   !.rows[r].unit = IF k # 0
                                    THEN <<formatPrice(cart[k].price * cart[k].quantity)>>
                                    ELSE @,
                   !.itemCount = Text(NumText(totals.itemCount)),
                   !.subtotal = Text(formatPrice(totals.subtotal)),
                   !.total = Text(formatPrice(totals.total))]
    /\ UNCHANGED <<os_active_voucher, os_current_user, os_pending_add, page, nav, threw, logoutLink, cartDom>>

\* Click on the remove button of checkout row id
CheckoutRemove(id) ==
    /\ last' = "coremove"
    /\ toasts' = <<>>
    /\ Interactive
    /\ page = "checkout"
    /\ HasRow(checkoutDom.rows, id)
    /\ LET cart == removeItem(Items, id) IN
       /\ cartItems' = Stored(cart)
       /\ badge' = Text(BadgeText(cart))
       /\ checkoutDom' = renderOrderSummary(checkoutDom, cart, os_active_voucher)
       /\ nav' = IF RedirectsToCatalog(cart) THEN Assign("catalog") ELSE nav
    /\ UNCHANGED <<os_active_voucher, os_current_user, os_pending_add, page, threw, logoutLink, cartDom>>

\* The text inputs validateCheckoutForm reads
FormFields == {"fullName", "email", "phone", "address", "city"}

\* A checkout form filled in completely: the characters of each input's
\* value and the value of the checked paymentMethod radio (NULL: none checked)
FilledForm ==
    [fullName |-> <<"A", "n", "a">>, email |-> <<"a", "@", "b">>,
     phone |-> <<"0", "9">>, address |-> <<"1", " ", "S", "t">>,
     city |-> <<"C", "e", "b", "u">>, paymentMethod |-> "cod"]

\* What the user filled into the checkout form: everything, or everything
\* but one input left empty or holding a blank, an email address without
\* "@", no payment method, or nothing at all
Forms ==
    {FilledForm}
    \cup {[FilledForm EXCEPT ![f] = v] : f \in FormFields, v \in {<<>>, <<" ">>}}
    \cup {[FilledForm EXCEPT !.email = <<"a", "b">>]}
    \cup {[FilledForm EXCEPT !.paymentMethod = NULL]}
    \cup {[fullName |-> <<>>, email |-> <<>>, phone |-> <<>>, address |-> <<>>,
           city |-> <<>>, paymentMethod |-> NULL]}

\* validateCheckoutForm without the test for "@"
FormErrorsBlankOnly(form) ==
    {f \in FormFields : Trim(form[f]) = <<>>}
    \cup (IF form.paymentMethod = NULL THEN {"payment"} ELSE {})

\* validateCheckoutForm(form): the error indicators it shows
FormErrors(form) ==
    {f \in FormFields : Trim(form[f]) = <<>>}
    \cup (IF \A i \in 1..Len(form.email) : form.email[i] # "@" THEN {"email"} ELSE {})
    \cup (IF form.paymentMethod = NULL THEN {"payment"} ELSE {})

validateCheckoutForm(form) == FormErrors(form) = {}

\* 'OS' + Date.now().toString().slice(-6)
OrderNumber(now) == <<"OS", now % 1000000>>

\* a checkout that also removes the stored voucher code with the cart
SubmitCheckoutClearsVoucher(form, now) ==
    /\ last' = "submit"
    /\ toasts' = <<>>
    /\ Interactive
    /\ page = "checkout"
    /\ ~checkoutDom.formHidden
    /\ IF ~isLoggedIn
       THEN /\ checkoutDom' = [checkoutDom EXCEPT !.authPrompt = TRUE]
            /\ UNCHANGED <<cartItems, badge, os_active_voucher>>
       ELSE IF ~validateCheckoutForm(form)
       THEN UNCHANGED <<cartItems, badge, checkoutDom, os_active_voucher>>
       ELSE /\ cartItems' = Absent
            /\ os_active_voucher' = NULL
            /\ badge' = Text(BadgeText(<<>>))
            /\ checkoutDom' = [checkoutDom EXCEPT !.formHidden = TRUE,
                                                  !.success = TRUE,
                                                  !.orderNumber = Text(OrderNumber(now))]
    /\ UNCHANGED <<os_current_user, os_pending_add, page, nav, threw, logoutLink, cartDom>>

\* 'submit' on the checkout form
SubmitCheckout(form, now) ==
    /\ last' = "submit"
    /\ toasts' = <<>>
    /\ Interactive
    /\ page = "checkout"
    /\ ~checkoutDom.formHidden
    /\ IF ~isLoggedIn
       THEN /\ checkoutDom' = [checkoutDom EXCEPT !.authPrompt = TRUE]
            /\ UNCHANGED <<cartItems, badge>>
       ELSE IF ~validateCheckoutForm(form)
       THEN UNCHANGED <<cartItems, badge, checkoutDom>>
       ELSE /\ cartItems' = Absent
            /\ badge' = Text(BadgeText(<<>>))
            /\ checkoutDom' = [checkoutDom EXCEPT !.formHidden = TRUE,
                                                  !.success = TRUE,
                                                  !.orderNumber = Text(OrderNumber(now))]
    /\ UNCHANGED <<os_active_voucher, os_current_user, os_pending_add, page, nav, threw, logoutLink, cartDom>>

\* ------------------------------------------------------------ specification
\* A step of the shop, the quantities typed being drawn from inputs
NextWith(inputs) ==
    \/ \E p \in Pages : Visit(p)
    \/ Redirect
    \/ Login
    \/ \E id \in ProductIds : AddToCartClick(id)
    \/ Logout
    \/ \E id \in ProductIds, typed \in inputs : QuantityChange(id, typed)
    \/ \E id \in ProductIds : RemoveClick(id)
    \/ \E typed \in CodeInputs : ApplyVoucher(typed)
    \/ RemoveVoucher
    \/ \E id \in ProductIds, typed \in inputs : CheckoutQuantityChange(id, typed)
    \/ \E id \in ProductIds : CheckoutRemove(id)
    \/ \E form \in Forms, now \in Timestamps : SubmitCheckout(form, now)

Next == NextWith(QtyInputs)

Spec == Init /\ [][Next]_vars

\* The shop with a customer who types bulk quantities
NextBulk == NextWith(BulkInputs)

SpecBulk == Init /\ [][NextBulk]_vars

\* ------------------------------------------------------------ stored data
\* The shop opened over whatever the browser holds under the script's keys:
\* a cart some earlier session left, text that is no cart, any voucher code.
StoredPrices == {100, 250, 1000, 1250}
StoredItems ==
    {[id |-> id, name |-> "Item", price |-> pr, image |-> "images/item.png",
      quantity |-> q] : id \in ProductIds, pr \in StoredPrices,
                        q \in {-1} \cup 1..MaxQty}
StoredCarts ==
    {<<>>} \cup {<<a>> : a \in StoredItems}
    \cup {<<a, b>> : a \in {x \in StoredItems : x.id = "A"},
                     b \in {x \in StoredItems : x.id = "B"}}
    \cup {<<b, a>> : a \in {x \in StoredItems : x.id = "A" /\ x.quantity = 1},
                     b \in {x \in StoredItems : x.id = "B" /\ x.quantity = 1}}
StoredValues ==
    {Absent} \cup {Malformed(k) : k \in MalformedKinds} \cup {Stored(c) : c \in StoredCarts}

InitStored ==
    /\ cartItems \in StoredValues
    /\ os_active_voucher \in {NULL, "OFFI2025", "BULK10"}
    /\ os_current_user = "user"
    /\ os_pending_add = <<>>
    /\ page = "login"
    /\ nav = NoNav
    /\ threw = FALSE
    /\ badge = NoText
    /\ logoutLink = FALSE
    /\ cartDom = BlankCartDom
    /\ checkoutDom = BlankCheckoutDom
    /\ toasts = <<>>
    /\ last = "login"

NextStored ==
    \/ \E p \in ScriptPages : Visit(p)
    \/ Redirect

SpecStored == InitStored /\ [][NextStored]_vars

\* A returning customer: the shop opened over stored data, the login flag
\* set, with the catalog's add-to-cart buttons
NextReturning ==
    \/ NextStored
    \/ \E id \in ProductIds : AddToCartClick(id)

SpecReturning == InitStored /\ [][NextReturning]_vars

\* ------------------------------------------------------------ claims
ActiveCode == getActiveVoucherCode(os_active_voucher)
Totals == calculateCartTotals(Items, ActiveCode)

\* The rearrangements of a cart's items
Perms(cart) ==
    LET n == Len(cart)
        Bij == {f \in [1..n -> 1..n] : \A i, j \in 1..n : f[i] = f[j] => i = j}
    IN  {[i \in 1..n |-> cart[f[i]]] : f \in Bij}

\* The sum of a function's values over its domain, in no order
RECURSIVE SumFn(_)
SumFn(f) ==
    IF DOMAIN f = {} THEN 0
    ELSE LET x == CHOOSE y \in DOMAIN f : TRUE
         IN  f[x] + SumFn([y \in DOMAIN f \ {x} |-> f[y]])

\* C1: whenever the text stored under 'cartItems' is absent or is no JSON array
\* of cart items, getCartItems() returns the empty cart without throwing, and a
\* page load completes and shows what it shows for an empty cart.
C1_MalformedStorageIsEmptyCart ==
    (cartItems.kind # "array" /\ last = "load") =>
        /\ ~getCartItems(cartItems).threw
        /\ getCartItems(cartItems).type = "array"
        /\ getCartItems(cartItems).items = <<>>
        /\ ~threw
        /\ badge = Text(BadgeText(<<>>))
        /\ page = "cart" => cartDom.emptyMsg = "block"
        /\ page = "checkout" => nav = Assign("catalog")

\* C2: every item of the persisted cart has a quantity >= 1.
C2_QuantityAtLeastOne ==
    \A i \in 1..Len(Items) : Items[i].quantity >= 1

\* C3: on the cart page, a quantity change to a number below 1 leaves the
\* persisted cart and the view that removeItem(id) and a render leave.
C3_BelowOneRemoves ==
    [][\A id \in ProductIds, typed \in QtyInputs :
          (typed.num /\ typed.val < 1 /\ QuantityChange(id, typed)) =>
              /\ cartItems' = Stored(removeItem(Items, id))
              /\ cartDom' = renderCart(cartDom, removeItem(Items, id), os_active_voucher)
      ]_vars

\* C4: addItemToCart(item) adds item.quantity to the entry with item's id and
\* adds no entry when there is one, and appends item at the end otherwise; so
\* adding an id with q1 and then q2 leaves the cart that adding it once with
\* q1 + q2 leaves.
C4_AddMergesById ==
    LET cart == Items IN
    \A id \in ProductIds, q1 \in 1..MaxQty, q2 \in 1..MaxQty :
        LET item(q) == [CardItem(id) EXCEPT !.quantity = q]
            after == addItemToCart(cart, item(q1))
            has == \E i \in 1..Len(cart) : cart[i].id = id
        IN  /\ has =>
                /\ Len(after) = Len(cart)
                /\ \A i \in 1..Len(cart) :
                      after[i] = IF cart[i].id = id
                                 THEN [cart[i] EXCEPT !.quantity = @ + q1]
                                 ELSE cart[i]
            /\ ~has =>
                /\ Len(after) = Len(cart) + 1
                /\ SubSeq(after, 1, Len(cart)) = cart
                /\ after[Len(after)] =
                      [item(q1) EXCEPT !.image = normalizeImageUrl(@)]
            /\ addItemToCart(after, item(q2)) = addItemToCart(cart, item(q1 + q2))

C4_Witness ==
    /\ last = "add"
    /\ Len(Items) = 2
    /\ Items[1].quantity = 2
    /\ Items[2].quantity = 2

\* C5: the persisted cart holds at most one entry per product id.
C5_UniqueIds ==
    \A i, j \in 1..Len(Items) : Items[i].id = Items[j].id => i = j

C5_Witness ==
    /\ last = "add"
    /\ Len(Items) = 1
    /\ Items[1].quantity = 2

\* C6: the total calculateCartTotals returns for the persisted cart and the
\* active voucher code is never negative.
C6_TotalNotNegative ==
    /\ Totals.total >= 0
    /\ calculateCartTotals1(Items).total >= 0

C6_Witness ==
    /\ page = "cart"
    /\ os_active_voucher = "OFFI2025"
    /\ Totals.discount = 100
    /\ cartDom.total = Text(formatPrice(Totals.total))

\* C7: the discount calculateCartTotals returns for the persisted cart and the
\* active voucher code is at least 0 and at most the subtotal.
C7_DiscountWithinSubtotal ==
    /\ 0 <= Totals.discount
    /\ Totals.discount <= Totals.subtotal

\* C8: calculateVoucherDiscount is 0 for a code that is no voucher, for a
\* subtotal <= 0 and for a subtotal below the voucher's minimum spend;
\* from the minimum spend on (500 for OFFI2025, 2000 for BULK10) it is
\* min(100, subtotal) for OFFI2025 and subtotal * 10 / 100 for BULK10.
\* OFFI2025 on 200 gives 0;
\* BULK10 on 2500 gives 250 and a total of 2400.
C8_VoucherDiscount ==
    LET sub == SumFn([i \in 1..Len(Items) |-> Items[i].price * Items[i].quantity])
        d(code) == calculateVoucherDiscount(Items, code)
    IN  /\ \A code \in {NULL, "", "save50", "OFFI", "BULK"} : d(code) = 0
        /\ \A code \in {"OFFI2025", "offi2025"} :
              d(code) = IF sub >= 500 THEN (IF 100 < sub THEN 100 ELSE sub) ELSE 0
        /\ \A code \in {"BULK10", " bulk10 "} :
              d(code) = IF sub >= 2000 THEN sub \div 10 ELSE 0
        /\ sub = 200 => d("OFFI2025") = 0
        /\ sub = 2500 => d("BULK10") = 250
        /\ (sub = 2500 /\ os_active_voucher = "BULK10") =>
              (Totals.discount = 250 /\ Totals.total = 2400)

C8_Witness ==
    /\ page = "cart"
    /\ os_active_voucher = "BULK10"
    /\ Subtotal(Items) = 2500
    /\ cartDom.discount = Text([minus |-> TRUE, price |-> formatPrice(250)])
    /\ cartDom.total = Text(formatPrice(2400))

\* C9: calculateCartTotals returns shipping 150 exactly when the subtotal is
\* > 0 and 0 otherwise, and total = max(0, subtotal - discount) + shipping; an
\* empty cart gives 0, 0, 0 and the cart of two A at 100 gives 200, 150, 350.
C9_ShippingAndTotal ==
    /\ Totals.shipping = (IF Totals.subtotal > 0 THEN 150 ELSE 0)
    /\ Totals.total = (IF Totals.subtotal - Totals.discount > 0
                       THEN Totals.subtotal - Totals.discount ELSE 0) + Totals.shipping
    /\ Items = <<>> =>
          (Totals.subtotal = 0 /\ Totals.shipping = 0 /\ Totals.total = 0)
    /\ (/\ Len(Items) = 1
        /\ Items[1].id = "A" /\ Items[1].price = 100 /\ Items[1].quantity = 2
        /\ os_active_voucher = NULL) =>
          (/\ Totals.subtotal = 200 /\ Totals.shipping = 150 /\ Totals.total = 350
           /\ Totals.itemCount = 2)

C9_Witness ==
    /\ page = "cart"
    /\ Len(Items) = 1
    /\ Items[1].id = "A" /\ Items[1].price = 100 /\ Items[1].quantity = 2
    /\ os_active_voucher = NULL
    /\ cartDom.shipping = Text(formatPrice(150))
    /\ cartDom.total = Text(formatPrice(350))

C11_ApplyStoresAnyKnownCode ==
    [][\A typed \in CodeInputs :
          (TrimUpper(typed) \in DOMAIN VOUCHERS /\ ApplyVoucher(typed)) =>
              os_active_voucher' = TrimUpper(typed)
      ]_vars

\* C11 (amended): a click on Apply with a known code typed stores that code
\* exactly when calculateVoucherDiscount gives more than 0 for it on the cart
\* one of the button's two listeners holds (the cart of the render that put
\* the voucher controls on the page, or the cart of the latest render);
\* otherwise the stored code and the view stay as they were.  The cart is
\* unchanged.
C11_ApplyValidatesEligibility ==
    [][\A typed \in CodeInputs :
          (TrimUpper(typed) \in DOMAIN VOUCHERS /\ ApplyVoucher(typed)) =>
              LET code == TrimUpper(typed)
                  eligible ==
                     \/ calculateVoucherDiscount(cartDom.listenerCart[1], code) > 0
                     \/ calculateVoucherDiscount(cartDom.onclickCart[1], code) > 0
              IN  /\ eligible => os_active_voucher' = code
                  /\ ~eligible => /\ os_active_voucher' = os_active_voucher
                                  /\ cartDom' = cartDom
                  /\ cartItems' = cartItems
      ]_vars

C11_Witness ==
    /\ last = "apply"
    /\ toasts = <<"Voucher does not meet requirements",
                  "Voucher does not meet requirements">>
    /\ os_active_voucher = NULL
    /\ Subtotal(Items) = 100


\* C12: a handler that changes the cart (add, replay of a pending add,
\* quantity change or remove, on the cart page or the checkout page) leaves the
\* stored voucher code as it was; and whenever the subtotal is below the stored
\* code's minimum spend, calculateCartTotals gives discount 0 and still gives
\* that code as the applied voucher.
C12_CartChangesKeepVoucher ==
    /\ [][last' \in {"add", "load", "qty", "remove", "coqty", "coremove"} =>
              os_active_voucher' = os_active_voucher]_vars
    /\ []((/\ os_active_voucher \in DOMAIN VOUCHERS
           /\ Subtotal(Items) < VOUCHERS[os_active_voucher].minSpend) =>
              /\ Totals.discount = 0
              /\ Totals.appliedVoucher = os_active_voucher)

C12_Witness ==
    /\ last = "qty"
    /\ page = "cart"
    /\ os_active_voucher = "BULK10"
    /\ Subtotal(Items) = 1000
    /\ Totals.discount = 0
    /\ cartDom.voucherCode = Text("BULK10")
    /\ cartDom.discount = Text([minus |-> TRUE, price |-> formatPrice(0)])


\* C13: a click on Apply with nothing, only blanks or an unknown code typed
\* leaves the stored voucher code, the persisted cart and the cart view as
\* they were, and shows a notification.
C13_UnknownCodeRejected ==
    [][\A typed \in CodeInputs :
          (TrimUpper(typed) \notin DOMAIN VOUCHERS /\ ApplyVoucher(typed)) =>
              /\ os_active_voucher' = os_active_voucher
              /\ cartItems' = cartItems
              /\ cartDom' = cartDom
              /\ toasts' \in {<<"Enter a voucher code", "Enter a voucher code">>,
                              <<"Invalid voucher code", "Invalid voucher code">>}
      ]_vars

C13_Witness ==
    /\ last = "apply"
    /\ toasts = <<"Invalid voucher code", "Invalid voucher code">>
    /\ os_active_voucher = "OFFI2025"
    /\ cartDom.voucherCode = Text("OFFI2025")


\* C14: getVoucherByCode resolves every spelling of OFFI2025 and of BULK10, in
\* any case and with blanks around it, to that voucher, and every other text
\* (the empty one, blanks, no code at all, a code with a blank inside, a part
\* of a code) to none; the code Apply stored resolves to its own voucher.
C14_LookupIgnoresCaseAndBlanks ==
    LET offi == {"OFFI2025", "offi2025", "Offi2025", " offi2025", " OFFI2025"}
        bulk == {"BULK10", "bulk10", " bulk10 ", " BULK10 "}
    IN  /\ \A t \in offi : getVoucherByCode(t) = VOUCHERS["OFFI2025"]
        /\ \A t \in bulk : getVoucherByCode(t) = VOUCHERS["BULK10"]
        /\ \A t \in (Texts \ (offi \cup bulk)) \cup {NULL} :
              getVoucherByCode(t) = NoVoucher
        /\ os_active_voucher # NULL =>
              getVoucherByCode(os_active_voucher).code = os_active_voucher

C14_Witness ==
    /\ last = "apply"
    /\ toasts[1] = "Voucher OFFI2025 applied"
    /\ os_active_voucher = "OFFI2025"
    /\ cartDom.voucherCode = Text(getVoucherByCode("offi2025").code)


\* C15: on every page that runs the script, after every handler, the header
\* badge shows the sum of the quantities of the persisted cart, as "99+" when
\* the sum is above 99 and as the number otherwise.
C15_BadgeShowsItemCount ==
    (page \in ScriptPages /\ ~threw) =>
        /\ badge = Text(BadgeText(Items))
        /\ LET n == SumFn([i \in 1..Len(Items) |-> Items[i].quantity])
           IN  badge[1] = IF n > 99
                          THEN [plus |-> TRUE, num |-> NumText(99)]
                          ELSE [plus |-> FALSE, num |-> NumText(n)]

C15_Witness ==
    /\ last \in {"qty", "coqty"}
    /\ Len(Items) = 2
    /\ Items[1].quantity + Items[2].quantity = 100
    /\ badge = Text([plus |-> TRUE, num |-> NumText(99)])


\* C16: after a quantity change or a removal handled on the checkout page that
\* leaves the cart populated, every figure the order summary displays (item
\* count, subtotal, discount, visibility of the discount row, shipping, total)
\* is the one calculateCartTotals returns for the persisted cart and the
\* active voucher code.
C16_SummaryMatchesTotals ==
    (last \in {"coqty", "coremove"} /\ page = "checkout" /\ Items # <<>>) =>
        /\ checkoutDom.itemCount = Text(NumText(Totals.itemCount))
        /\ checkoutDom.subtotal = Text(formatPrice(Totals.subtotal))
        /\ checkoutDom.discount = Text(formatPrice(Totals.discount))
        /\ checkoutDom.discountRow = (IF Totals.discount > 0 THEN "flex" ELSE "none")
        /\ checkoutDom.shipping = Text(formatPrice(Totals.shipping))
        /\ checkoutDom.total = Text(formatPrice(Totals.total))


\* C17: an add-to-cart click while isLoggedIn() is false leaves the persisted
\* cart as it was, stores the clicked card's item with quantity 1 as the
\* pending add and schedules the navigation to the login page (an earlier
\* scheduled navigation stays the one that fires first); a click while
\* isLoggedIn() is true raises the item's quantity in the persisted cart by 1
\* at once and records no pending add.
C17_LoggedOutAddIsDeferred ==
    [][\A id \in ProductIds : AddToCartClick(id) =>
          LET QtyOf(cart) == SumFn([i \in 1..Len(cart) |->
                                      IF cart[i].id = id THEN cart[i].quantity ELSE 0])
          IN  IF os_current_user = NULL
              THEN /\ cartItems' = cartItems
                   /\ os_pending_add' =
                         <<[id |-> id, name |-> Catalog[id].name,
                            price |-> Catalog[id].price, image |-> Catalog[id].image,
                            quantity |-> 1]>>
                   /\ nav.to = "none" => nav' = [to |-> "login", timer |-> TRUE]
                   /\ nav.to # "none" => nav' = nav
                   /\ toasts' = <<"Please sign in to continue">>
              ELSE /\ QtyOf(Items') = QtyOf(Items) + 1
                   /\ Len(Items') = IF \E i \in 1..Len(Items) : Items[i].id = id
                                    THEN Len(Items) ELSE Len(Items) + 1
                   /\ os_pending_add' = <<>>
                   /\ os_pending_add = <<>>
                   /\ nav' = nav]_vars

C17_Witness ==
    /\ last = "add"
    /\ os_current_user = NULL
    /\ toasts = <<"Please sign in to continue">>
    /\ os_pending_add = <<CardItem("B")>>
    /\ nav = [to |-> "login", timer |-> TRUE]
    /\ Items = <<>>


\* C18 as stated: an add-to-cart intent deferred while logged out stays
\* recorded until a page load with the login flag set adds it to the cart and
\* removes the record.
C18_EveryDeferredAddReplayed ==
    [][(os_pending_add # <<>> /\ os_pending_add' # os_pending_add) =>
          /\ last' = "load"
          /\ os_current_user # NULL
          /\ os_pending_add' = <<>>
          /\ \E i \in 1..Len(Items') : Items'[i].id = os_pending_add[1].id]_vars

\* C18, amended: the pending record holds the item of the latest add-to-cart
\* click made while logged out (a later click replaces an earlier one). The
\* first load of a page that runs the script with the login flag set raises
\* that item's quantity in the persisted cart by 1 and removes the record; a
\* load without the login flag, or without a record, adds nothing; and no
\* record is left on a page loaded with the login flag set, so no later load
\* adds again.
C18_PendingAddReplayedOnce ==
    /\ [][(last' = "load" /\ page' \in ScriptPages /\ ~threw') =>
             LET QtyOf(cart, id) == SumFn([i \in 1..Len(cart) |->
                                       IF cart[i].id = id THEN cart[i].quantity ELSE 0])
             IN  IF os_pending_add # <<>> /\ os_current_user # NULL
                 THEN /\ os_pending_add' = <<>>
                      /\ \A id \in ProductIds :
                            QtyOf(Items', id) = QtyOf(Items, id)
                                + (IF id = os_pending_add[1].id THEN 1 ELSE 0)
                      /\ toasts' = <<"Added item to cart after sign-in">>
                 ELSE /\ os_pending_add' = os_pending_add
                      /\ \A id \in ProductIds : QtyOf(Items', id) = QtyOf(Items, id)
                      /\ Len(Items') = Len(Items)]_vars
    /\ [][os_pending_add' # os_pending_add =>
             \/ last' = "add" /\ os_current_user = NULL /\ os_pending_add' # <<>>
             \/ last' = "load" /\ os_current_user # NULL /\ os_pending_add' = <<>>]_vars
    /\ []((os_current_user # NULL /\ page \in ScriptPages) => os_pending_add = <<>>)

C18_Witness ==
    /\ last = "load"
    /\ toasts = <<"Added item to cart after sign-in">>
    /\ os_current_user # NULL
    /\ os_pending_add = <<>>
    /\ page = "catalog"
    /\ Items = <<CardItem("B")>>


\* A form as C19 describes it: fullName, email, phone, address or city blank,
\* an email without "@", or no payment method selected
LacksRequired(form) ==
    LET Blank(v) == \A i \in 1..Len(v) : v[i] = " "
    IN  \/ Blank(form.fullName) \/ Blank(form.email) \/ Blank(form.phone)
        \/ Blank(form.address) \/ Blank(form.city)
        \/ ~\E i \in 1..Len(form.email) : form.email[i] = "@"
        \/ form.paymentMethod = NULL

\* C19: a checkout submission whose fullName, email, phone, address or city
\* is blank, whose email has no "@", or that has no payment method selected
\* is rejected: validateCheckoutForm is false for it, and a submission after
\* which an order reference is shown, the form is hidden, or the persisted
\* cart or the active voucher code differ is not the submission of such a form.
C19_InvalidFormRejected ==
    /\ [](\A form \in Forms : LacksRequired(form) => ~validateCheckoutForm(form))
    /\ [][(/\ last' = "submit"
           /\ \/ checkoutDom'.orderNumber # NoText
              \/ checkoutDom'.success
              \/ checkoutDom'.formHidden
              \/ cartItems' # cartItems
              \/ os_active_voucher' # os_active_voucher) =>
             \A form \in Forms, now \in Timestamps :
                 LacksRequired(form) => ~SubmitCheckout(form, now)]_vars

C19_Witness ==
    /\ last = "submit"
    /\ os_current_user # NULL
    /\ ~checkoutDom.formHidden
    /\ checkoutDom.orderNumber = NoText
    /\ Items = <<CardItem("B")>>
    /\ os_active_voucher = "OFFI2025"


\* C20: right after doLogout, and right after a checkout submission that
\* passed validation, the persisted cart is empty and the header badge shows
\* 0; after the successful submission the page also shows the order
\* reference, "OS" followed by the last six digits of the time of the order.
C20_CartClearedOnCheckoutAndLogout ==
    /\ last = "logout" =>
          /\ Items = <<>>
          /\ badge = Text([plus |-> FALSE, num |-> NumText(0)])
    /\ (last = "submit" /\ checkoutDom.success) =>
          /\ Items = <<>>
          /\ badge = Text([plus |-> FALSE, num |-> NumText(0)])
          /\ \E now \in Timestamps :
                checkoutDom.orderNumber = Text(<<"OS", now % 1000000>>)
          /\ checkoutDom.formHidden

C20_Witness ==
    /\ last = "submit"
    /\ checkoutDom.success
    /\ checkoutDom.orderNumber = Text(<<"OS", 234567>>)
    /\ checkoutDom.rows # <<>>
    /\ cartItems = Absent
    /\ badge = Text([plus |-> FALSE, num |-> NumText(0)])


\* C21: when renderOrderSummary runs with an empty cart, at the load of the
\* checkout page or after the checkout page's remove button took the last
\* item, it assigns catalog.html to window.location.href and writes no item
\* rows and no totals: after a load the summary is blank, after a removal it
\* is as it was before the click.
C21_EmptyCheckoutRedirects ==
    [][(page' = "checkout" /\ ~threw') =>
          /\ (last' = "load" /\ Items = <<>>) =>
                /\ nav' = [to |-> "catalog", timer |-> FALSE]
                /\ checkoutDom' = BlankCheckoutDom
          /\ (last' = "coremove" /\ Items' = <<>>) =>
                /\ nav' = [to |-> "catalog", timer |-> FALSE]
                /\ checkoutDom' = checkoutDom]_vars

C21_Witness ==
    /\ last = "coremove"
    /\ page = "checkout"
    /\ Items = <<>>
    /\ nav = [to |-> "catalog", timer |-> FALSE]
    /\ Len(checkoutDom.rows) = 1


\* The cart page shows the empty branch / the populated branch of renderCart
CartViewEmpty ==
    /\ cartDom.emptyMsg = "block"
    /\ cartDom.summaryBox = "none"
    /\ cartDom.headerRow = "none"
    /\ cartDom.rows = <<>>

CartViewPopulated ==
    /\ cartDom.emptyMsg = "none"
    /\ cartDom.summaryBox = "block"
    /\ cartDom.headerRow = "grid"
    /\ Len(cartDom.rows) = Len(Items)

\* C22 as stated: on the cart page the view is in the empty branch exactly
\* when the persisted cart is empty, and in the populated branch otherwise.
C22_BranchFollowsCart ==
    (page = "cart" /\ ~threw) =>
        IF Items = <<>> THEN CartViewEmpty ELSE CartViewPopulated

\* C22, amended: the same, on the cart page while no logout has scheduled its
\* navigation away (doLogout empties the persisted cart without rendering).
C22_BranchFollowsCartUnlessLoggingOut ==
    (page = "cart" /\ ~threw /\ nav.to = "none") =>
        IF Items = <<>> THEN CartViewEmpty ELSE CartViewPopulated

\* the cart page after its remove button took the last item: the voucher
\* controls, injected by a populated render, are there and the view is empty
C22_Witness ==
    /\ last = "remove"
    /\ page = "cart"
    /\ nav.to = "none"
    /\ Items = <<>>
    /\ cartDom.controls
    /\ CartViewEmpty


\* C23: renderCart run a second time on the cart page, and renderOrderSummary
\* run a second time on the checkout page, over the same persisted cart and
\* voucher code, leave the view the first run produced, so that any handler
\* that runs afterwards finds what it finds after one run; and the two
\* listeners of the voucher's Remove button, each of which renders, leave the
\* persisted cart as it was and the view of one render.
C23_RenderTwiceIsRenderOnce ==
    /\ []((page = "cart" /\ ~threw) =>
             renderCart(renderCart(cartDom, Items, os_active_voucher),
                        Items, os_active_voucher)
                 = renderCart(cartDom, Items, os_active_voucher))
    /\ []((page = "checkout" /\ ~threw) =>
             renderOrderSummary(renderOrderSummary(checkoutDom, Items, os_active_voucher),
                                Items, os_active_voucher)
                 = renderOrderSummary(checkoutDom, Items, os_active_voucher))
    /\ [][last' = "unapply" =>
             /\ cartItems' = cartItems
             /\ cartDom' = renderCart(cartDom, Items, os_active_voucher')]_vars

C23_Witness ==
    /\ last = "unapply"
    /\ page = "cart"
    /\ Len(Items) = 2
    /\ Len(cartDom.rows) = 2
    /\ cartDom = renderCart(cartDom, Items, os_active_voucher)


C25_UpdateChangesOneQuantity ==
    LET cart == Items IN
    /\ \A id \in ProductIds \cup {"Z"}, qty \in -1..MaxQty :
          LET after == updateQuantity(cart, id, qty)
          IN  /\ Len(after) = Len(cart)
              /\ \A i \in 1..Len(cart) :
                    after[i] = IF cart[i].id = id
                               THEN [id |-> cart[i].id, name |-> cart[i].name,
                                     price |-> cart[i].price, image |-> cart[i].image,
                                     quantity |-> qty]
                               ELSE cart[i]
              /\ (\A i \in 1..Len(cart) : cart[i].id # id) => after = cart
    /\ last \in {"qty", "coqty"} => ~threw

\* the cart page after 2 was typed into the second row's quantity input
C25_Witness ==
    /\ last = "qty"
    /\ page = "cart"
    /\ Len(Items) = 2
    /\ Items[1].quantity = 1
    /\ Items[2] = [CardItem(Items[2].id) EXCEPT !.quantity = 2]
    /\ Len(cartDom.rows) = 2


\* C26: adding an id the persisted cart already holds, whatever the price,
\* name and image of the item added, raises the quantity of that entry by the
\* quantity added and changes nothing else: the entry keeps the price, name
\* and image it was stored with, and the subtotal grows by the stored unit
\* price times the quantity added.
C26_AddKeepsStoredPrice ==
    LET cart == Items IN
    \A k \in 1..Len(cart), pr \in StoredPrices, nm \in {"Item", "Ballpen"},
       im \in {"images/item.png", "images/ball pen.png"}, q \in 1..MaxQty :
        LET newItem == [id |-> cart[k].id, name |-> nm, price |-> pr,
                        image |-> im, quantity |-> q]
            after == addItemToCart(cart, newItem)
        IN  /\ Len(after) = Len(cart)
            /\ \A i \in 1..Len(cart) :
                  after[i] = IF i = k
                             THEN [id |-> cart[k].id, name |-> cart[k].name,
                                   price |-> cart[k].price, image |-> cart[k].image,
                                   quantity |-> cart[k].quantity + q]
                             ELSE cart[i]
            /\ Subtotal(after) = Subtotal(cart) + cart[k].price * q

\* the catalog page after a click on the Ballpen's button (catalog price 100)
\* with a Ballpen stored at 250 under another name
C26_Witness ==
    /\ last = "add"
    /\ page = "catalog"
    /\ Len(Items) = 1
    /\ Items[1] = [id |-> "A", name |-> "Item", price |-> 250,
                   image |-> "images/item.png", quantity |-> 2]
    /\ Catalog["A"].price = 100


\* C27: a click on the cart page's Apply button stores a voucher code only
\* if calculateVoucherDiscount is > 0 for that code and the cart persisted at
\* the moment of the click.
C27_ApplyChecksPersistedCart ==
    [][(last' = "apply" /\ os_active_voucher' # os_active_voucher) =>
          calculateVoucherDiscount(Items, os_active_voucher') > 0]_vars


\* C28: from an empty cart and no login flag, after every handler, the
\* persisted cart is empty whenever the login flag is absent.
C28_LoggedOutCartIsEmpty ==
    os_current_user = NULL => Items = <<>>

\* logged out again after a session that had put two items into the cart
C28_Witness ==
    /\ last = "logout"
    /\ os_current_user = NULL
    /\ cartItems = Stored(<<>>)
    /\ Len(cartDom.rows) = 2


\* C29: a checkout submission creates an order (shows the success panel with
\* an order reference and removes the cart) only when the login flag is set
\* and the persisted cart holds an item at the moment of the submission.
C29_OrderNeedsLoginAndItems ==
    [][(last' = "submit" /\ checkoutDom'.success) =>
          (os_current_user # NULL /\ Items # <<>>)]_vars


\* C30: a checkout submission, successful or not, leaves the stored voucher
\* code as it was; a stored code is removed only by the voucher's Remove
\* button and by logout; and a stored code gives its discount in the totals
\* of any persisted cart whose subtotal reaches its minSpend.
C30_CheckoutKeepsVoucher ==
    /\ [][last' = "submit" => os_active_voucher' = os_active_voucher]_vars
    /\ [][(os_active_voucher # NULL /\ os_active_voucher' = NULL) =>
             last' \in {"unapply", "logout"}]_vars
    /\ []((/\ os_active_voucher \in DOMAIN VOUCHERS
           /\ Subtotal(Items) > 0
           /\ Subtotal(Items) >= VOUCHERS[os_active_voucher].minSpend) =>
             /\ Totals.appliedVoucher = os_active_voucher
             /\ Totals.discount > 0
             /\ Totals.discount =
                   calculateVoucherDiscount(Items, os_active_voucher))

\* the order placed with OFFI2025 active: the cart is gone, the code is not
C30_Witness ==
    /\ last = "submit"
    /\ checkoutDom.success
    /\ checkoutDom.voucherCode = Text("OFFI2025")
    /\ checkoutDom.discountRow = "flex"
    /\ cartItems = Absent
    /\ os_active_voucher = "OFFI2025"

====
